---- MODULE Spec2Model ----
(***************************************************************************)
(* Model of draftfast/lineup_contraints.py: the LineupConstraints          *)
(* container, PlayerGroupConstraint and its validation, and the            *)
(* ConstraintIterator.                                                     *)
(*                                                                         *)
(* Python values are modelled as follows.                                  *)
(*   - a player identifier is a string;                                    *)
(*   - a list of players is a sequence;                                    *)
(*   - None is the empty sequence <<>> and an integer n held in an         *)
(*     attribute that may be None is <<n>>;                                *)
(*   - the `players` argument of ban/lock is a record: either a bare str   *)
(*     (isStr) or a list;                                                  *)
(*   - the `bound` argument is a record: an int, a 2-tuple, or any other   *)
(*     shape;                                                              *)
(*   - a raised exception is recorded, with its message, in `last`, the    *)
(*     record of the most recent call.                                     *)
(***************************************************************************)
EXTENDS Integers, Sequences, FiniteSets, TLC

VARIABLES
    constraints,            \* LineupConstraints._constraints (a list)
    banned,                 \* LineupConstraints._banned
    locked,                 \* LineupConstraints._locked
    banned_for_exposure,    \* LineupConstraints._banned_for_exposure
    locked_for_exposure,    \* LineupConstraints._locked_for_exposure
    iters,                  \* the ConstraintIterator objects created so far
    other,                  \* a second LineupConstraints object: its five attributes
    last                    \* the most recent call: operation, arguments, outcome

vars == <<constraints, banned, locked, banned_for_exposure,
          locked_for_exposure, iters, other, last>>

sets == <<banned, locked, banned_for_exposure, locked_for_exposure>>

-----------------------------------------------------------------------------
(* Bounds of the model *)

Players == {"a", "b", "c"}

\* most group constraints stored
MaxConstraints == 2

\* most iterators created
MaxIters == 2

\* largest integer tried as a bound of a group constraint
MaxBound == 4

-----------------------------------------------------------------------------
(* Python values *)

None == <<>>

Some(n) == <<n>>

Range(s) == {s[i] : i \in 1..Len(s)}

\* the `players` argument of ban / lock
StrArg(p) == [isStr |-> TRUE, s |-> p, l |-> <<>>]

ListArg(ps) == [isStr |-> FALSE, s |-> "", l |-> ps]

\* the `bound` argument of add_group_constraint
IntBound(n) == [kind |-> "int", a |-> n, b |-> 0]

PairBound(lo, hi) == [kind |-> "pair", a |-> lo, b |-> hi]

OtherBound == [kind |-> "other", a |-> 0, b |-> 0]

NoBound == [kind |-> "none", a |-> 0, b |-> 0]

-----------------------------------------------------------------------------
(* Outcomes *)

Ok == [exc |-> "None", msg |-> "", arg |-> ""]

Raise(exc, msg, arg) == [exc |-> exc, msg |-> msg, arg |-> arg]

ConstraintException(msg) == Raise("ConstraintException", msg, "")

ConstraintConflictException(msg, p) == Raise("ConstraintConflictException", msg, p)

StopIteration == Raise("StopIteration", "", "")

\* the record of a call: its arguments, its outcome, what __next__ returned,
\* and the exposure sets <<locked_for_exposure, banned_for_exposure>> that
\* clear_exposure_constraints emptied
Call(op, players, for_exposure, bound, it, out, ret, cleared) ==
    [op |-> op, players |-> players, for_exposure |-> for_exposure,
     bound |-> bound, it |-> it, out |-> out, ret |-> ret, cleared |-> cleared]

NoCall == Call("init", ListArg(<<>>), FALSE, NoBound, 0, Ok, <<>>, <<{}, {}>>)

-----------------------------------------------------------------------------
(* _iterableify *)

\* a mutant of _iterableify: a str is iterated as it is, character by character
_iterableify_Split(x) ==
    IF x.isStr THEN (IF x.s = "ab" THEN <<"a", "b">> ELSE <<x.s>>) ELSE x.l

_iterableify(x) == IF x.isStr THEN <<x.s>> ELSE x.l

-----------------------------------------------------------------------------
(* PlayerConstraint / PlayerGroupConstraint *)

\* the object once constructed
Constraint(players, exact, lo, hi) ==
    [players |-> players, exact |-> exact, lo |-> lo, hi |-> hi]

\* PlayerConstraint.__init__: the exception it raises, or Ok
PlayerConstraintInit(players) ==
    IF Len(players) = 0
    THEN ConstraintException("No players in group")
    ELSE IF Len(players) # Cardinality(Range(players))
    THEN ConstraintException("Duplicate players in group")
    ELSE Ok

\* a mutant of _exact_bounds_sanity_check: a bound equal to the group size passes
_exact_bounds_sanity_check_Inclusive(players, exact) ==
    IF exact <= 0
    THEN ConstraintException("Exact bound may not less than or equal to zero")
    ELSE IF exact > Len(players)
    THEN ConstraintException("Exact bound may not be greater than or equal to number of players in group")
    ELSE Ok

_exact_bounds_sanity_check(players, exact) ==
    IF exact <= 0
    THEN ConstraintException("Exact bound may not less than or equal to zero")
    ELSE IF exact >= Len(players)
    THEN ConstraintException("Exact bound may not be greater than or equal to number of players in group")
    ELSE Ok

\* a mutant of _hi_lo_bounds_sanity_check: the test `hi == lo` is missing
_hi_lo_bounds_sanity_check_NoEqual(players, lo, hi) ==
    IF lo < 1
    THEN ConstraintException("Lower bound for {!r} cannot be less than 1")
    ELSE IF hi < lo
    THEN ConstraintException("Upper bound for {!r} cannot be less than lower bound.")
    ELSE IF hi > Len(players) \/ lo > Len(players)
    THEN ConstraintException("Bound for {!r} cannot be greater than number of players group")
    ELSE Ok

_hi_lo_bounds_sanity_check(players, lo, hi) ==
    IF lo < 1
    THEN ConstraintException("Lower bound for {!r} cannot be less than 1")
    ELSE IF hi = lo
    THEN ConstraintException("Lower bound for {!r} cannot equal upper bound")
    ELSE IF hi < lo
    THEN ConstraintException("Upper bound for {!r} cannot be less than lower bound.")
    ELSE IF hi > Len(players) \/ lo > Len(players)
    THEN ConstraintException("Bound for {!r} cannot be greater than number of players group")
    ELSE Ok

\* PlayerGroupConstraint.__init__: the exception it raises, or Ok
PlayerGroupConstraintInit(players, bound) ==
    IF PlayerConstraintInit(players) # Ok
    THEN PlayerConstraintInit(players)
    ELSE IF bound.kind = "pair"
    THEN _hi_lo_bounds_sanity_check(players, bound.a, bound.b)
    ELSE IF bound.kind = "int"
    THEN _exact_bounds_sanity_check(players, bound.a)
    ELSE ConstraintException("Bound must be length 2 or int")

\* the object PlayerGroupConstraint.__init__ leaves when it does not raise
PlayerGroupConstraint(players, bound) ==
    IF bound.kind = "pair"
    THEN Constraint(players, None, Some(bound.a), Some(bound.b))
    ELSE Constraint(players, Some(bound.a), None, None)

\* a mutant of PlayerConstraint.__eq__: the player lists compared in order
PlayerConstraintEq_Ordered(c, rule) == c.players = rule.players

\* PlayerConstraint.__eq__
PlayerConstraintEq(c, rule) == Range(c.players) = Range(rule.players)

\* a mutant of PlayerGroupConstraint.__eq__: the bounds are not compared
PlayerGroupConstraintEq_PlayersOnly(c, constraint) == PlayerConstraintEq(c, constraint)

\* PlayerGroupConstraint.__eq__
PlayerGroupConstraintEq(c, constraint) ==
    /\ PlayerConstraintEq(c, constraint)
    /\ c.exact = constraint.exact
    /\ c.lo = constraint.lo
    /\ c.hi = constraint.hi

-----------------------------------------------------------------------------
(* LineupConstraints: queries *)

\* a mutant of __contains__: the exposure sets are not consulted
Contains_NoExposure(player) ==
    \/ player \in locked
    \/ player \in banned
    \/ \E i \in 1..Len(constraints) : player \in Range(constraints[i].players)

\* a mutant of __contains__: the exposure locks are not consulted
Contains_NoLockedForExposure(player) ==
    \/ player \in locked
    \/ player \in banned
    \/ player \in banned_for_exposure
    \/ \E i \in 1..Len(constraints) : player \in Range(constraints[i].players)

\* a mutant of __contains__: the group constraints are not consulted
Contains_NoGroups(player) ==
    \/ player \in locked
    \/ player \in banned
    \/ player \in locked_for_exposure
    \/ player \in banned_for_exposure

\* LineupConstraints.__contains__
Contains(player) ==
    \/ player \in locked
    \/ player \in banned
    \/ player \in locked_for_exposure
    \/ player \in banned_for_exposure
    \/ \E i \in 1..Len(constraints) : player \in Range(constraints[i].players)

\* a mutant of is_banned: an exposure ban counts as a ban
is_banned_Exposure(player) == player \in banned \cup banned_for_exposure

is_banned(player) == player \in banned

is_locked(player) == player \in locked

\* a mutant of __len__: the number of rules that bind every lineup
SetLen_NoExposure == Len(constraints) + Cardinality(locked) + Cardinality(banned)

\* LineupConstraints.__len__
SetLen ==
    Len(constraints) + Cardinality(locked) + Cardinality(banned)
        + Cardinality(locked_for_exposure) + Cardinality(banned_for_exposure)

\* LineupConstraints.__init__: the attributes of a new object
LineupConstraints ==
    [constraints |-> <<>>, banned |-> {}, locked |-> {},
     banned_for_exposure |-> {}, locked_for_exposure |-> {}]

\* the object the operations act on, as a value
Self ==
    [constraints |-> constraints, banned |-> banned, locked |-> locked,
     banned_for_exposure |-> banned_for_exposure,
     locked_for_exposure |-> locked_for_exposure]

\* the identifiers in the order sorted() gives them
Alphabet == <<"a", "b", "c">>

\* `''.join(sorted(self.players))`: for identifiers of one character, the
\* characters of the joined string are the sorted identifiers
SortedJoin(players) ==
    LET Listed(x) == x \in Range(players)
    IN  SelectSeq(Alphabet, Listed)

\* PlayerGroupConstraint.__hash__: the tuple that is hashed
PlayerGroupConstraintHash(c) == <<SortedJoin(c.players), c.exact, c.lo, c.hi>>

\* the test a set makes to find an element: same hash, then __eq__
SameKey(c, d) ==
    /\ PlayerGroupConstraintHash(c) = PlayerGroupConstraintHash(d)
    /\ PlayerGroupConstraintEq(c, d)

\* set(list): the first of every run of elements with the same key is kept
PySet(l) == {l[i] : i \in {k \in 1..Len(l) : \A j \in 1..(k - 1) : ~SameKey(l[j], l[k])}}

\* A == B for two sets of constraints: same size, and every element of A in B
PySetEq(A, B) ==
    /\ Cardinality(A) = Cardinality(B)
    /\ \A c \in A : \E d \in B : SameKey(c, d)

\* a mutant of the second test of __eq__: the two lists are compared, in order
ConstraintsDiffer_Ordered(x, y) ==
    \/ Len(x) # Len(y)
    \/ \E i \in 1..Len(x) : ~PlayerGroupConstraintEq(x[i], y[i])

\* `set(self._constraints) != set(constraintset._constraints)`
ConstraintsDiffer(x, y) == ~PySetEq(PySet(x), PySet(y))

\* LineupConstraints.__eq__
LineupConstraintsEq(self, constraintset) ==
    IF Len(self.constraints) # Len(constraintset.constraints)
    THEN FALSE
    ELSE IF ConstraintsDiffer(self.constraints, constraintset.constraints)
    THEN FALSE
    ELSE IF self.locked # constraintset.locked
    THEN FALSE
    ELSE IF self.banned # constraintset.banned
    THEN FALSE
    ELSE IF self.locked_for_exposure # constraintset.locked_for_exposure
    THEN FALSE
    ELSE IF self.banned_for_exposure # constraintset.banned_for_exposure
    THEN FALSE
    ELSE TRUE

\* the index of the first element of a list, in list order, that is in S, the
\* elements for which the loop's test holds; 0 if there is none
FirstIndex(s, S) ==
    IF \E i \in 1..Len(s) : s[i] \in S
    THEN CHOOSE i \in 1..Len(s) : s[i] \in S /\ \A j \in 1..(i - 1) : s[j] \notin S
    ELSE 0

\* `constraint in self._constraints`: list containment by __eq__
InConstraints(constraint) ==
    \E i \in 1..Len(constraints) : PlayerGroupConstraintEq(constraints[i], constraint)

\* a mutant of the test in _check_conflicts: only the locked set is consulted
BanOrLocked_OnlyLocked(p) == p \in locked

\* a mutant of the test in _check_conflicts: the exposure sets are consulted too
BanOrLocked_Exposure(p) ==
    p \in locked \/ p \in banned \/ p \in locked_for_exposure \/ p \in banned_for_exposure

\* the test of _check_conflicts: `p in self._locked or p in self._banned`
BanOrLocked(p) == p \in locked \/ p \in banned

\* LineupConstraints._check_conflicts: the exception it raises, or Ok
_check_conflicts(constraint) ==
    LET i == FirstIndex(constraint.players,
                        {p \in Range(constraint.players) : BanOrLocked(p)})
    IN  IF i # 0
        THEN ConstraintConflictException("Ban/lock constraint for {} already exists",
                                         constraint.players[i])
        ELSE Ok

\* LineupConstraints._add: the exception it raises, or Ok
_add(constraint) ==
    IF _check_conflicts(constraint) # Ok
    THEN _check_conflicts(constraint)
    ELSE IF ~InConstraints(constraint)
    THEN Ok
    ELSE ConstraintConflictException("Duplicate constraint", "")

\* a mutant of the append in _add: the constraint is put first
ListAppend_Front(l, x) == <<x>> \o l

\* `self._constraints.append(constraint)`
ListAppend(l, x) == Append(l, x)

\* the checks ban / lock make before they update: the exception raised, or Ok
BatchCheck(_players, emptyMsg) ==
    IF Len(_players) = 0
    THEN ConstraintException(emptyMsg)
    ELSE LET i == FirstIndex(_players, {p \in Range(_players) : Contains(p)})
         IN  IF i # 0
             THEN ConstraintConflictException("{} exists in another constraint",
                                              _players[i])
             ELSE Ok

\* a mutant of the update of ban / lock: each player is added as it passes the
\* check, so that the players before the first conflicting one are kept
Update_Partial(_players, out) ==
    IF out = Ok
    THEN Range(_players)
    ELSE IF out.exc = "ConstraintConflictException"
    THEN {_players[j] : j \in
              1..(FirstIndex(_players, {p \in Range(_players) : Contains(p)}) - 1)}
    ELSE {}

\* the players `update(_players)` adds: it is reached only if no check raised
Update(_players, out) == IF out = Ok THEN Range(_players) ELSE {}

-----------------------------------------------------------------------------
(* LineupConstraints: operations *)

\* a successful append makes every live iterator's traversal a mutated one
Touch == [i \in 1..Len(iters) |-> [iters[i] EXCEPT !.dirty = TRUE]]

\* the outcome of add_group_constraint: the constructor's exception, else _add's
AddOutcome(players, bound) ==
    IF PlayerGroupConstraintInit(players, bound) # Ok
    THEN PlayerGroupConstraintInit(players, bound)
    ELSE _add(PlayerGroupConstraint(players, bound))

add_group_constraint(players, bound) ==
    LET c   == PlayerGroupConstraint(players, bound)
        out == AddOutcome(players, bound)
    IN  /\ last' = Call("add_group_constraint", ListArg(players), FALSE, bound, 0,
                        out, <<>>, <<{}, {}>>)
        /\ IF out = Ok
           THEN /\ constraints' = ListAppend(constraints, c)
                /\ iters' = Touch
           ELSE UNCHANGED <<constraints, iters>>
        /\ UNCHANGED <<sets, other>>

\* the outcome of ban
BanOutcome(players) == BatchCheck(_iterableify(players), "Empty ban group")

\* the outcome of lock
LockOutcome(players) == BatchCheck(_iterableify(players), "Empty lock group")

ban(players, for_exposure) ==
    LET _players == _iterableify(players)
        out      == BanOutcome(players)
    IN  /\ last' = Call("ban", players, for_exposure, NoBound, 0, out, <<>>, <<{}, {}>>)
        /\ IF for_exposure
           THEN /\ banned_for_exposure' = banned_for_exposure \cup Update(_players, out)
                /\ UNCHANGED banned
           ELSE /\ banned' = banned \cup Update(_players, out)
                /\ UNCHANGED banned_for_exposure
        /\ UNCHANGED <<constraints, locked, locked_for_exposure, iters, other>>

lock(players, for_exposure) ==
    LET _players == _iterableify(players)
        out      == LockOutcome(players)
    IN  /\ last' = Call("lock", players, for_exposure, NoBound, 0, out, <<>>, <<{}, {}>>)
        /\ IF for_exposure
           THEN /\ locked_for_exposure' = locked_for_exposure \cup Update(_players, out)
                /\ UNCHANGED locked
           ELSE /\ locked' = locked \cup Update(_players, out)
                /\ UNCHANGED locked_for_exposure
        /\ UNCHANGED <<constraints, banned, banned_for_exposure, iters, other>>

\* a mutant of clear_exposure_constraints: only the exposure locks are cleared
clear_exposure_constraints_LocksOnly ==
    /\ locked_for_exposure' = {}
    /\ UNCHANGED banned_for_exposure
    /\ last' = Call("clear_exposure_constraints", ListArg(<<>>), FALSE, NoBound, 0,
                    Ok, <<>>, <<locked_for_exposure, banned_for_exposure>>)
    /\ UNCHANGED <<constraints, banned, locked, iters, other>>

\* a mutant of clear_exposure_constraints: the bans are cleared as well
clear_exposure_constraints_Bans ==
    /\ locked_for_exposure' = {}
    /\ banned_for_exposure' = {}
    /\ banned' = {}
    /\ last' = Call("clear_exposure_constraints", ListArg(<<>>), FALSE, NoBound, 0,
                    Ok, <<>>, <<locked_for_exposure, banned_for_exposure>>)
    /\ UNCHANGED <<constraints, locked, iters, other>>

clear_exposure_constraints ==
    /\ locked_for_exposure' = {}
    /\ banned_for_exposure' = {}
    /\ last' = Call("clear_exposure_constraints", ListArg(<<>>), FALSE, NoBound, 0,
                    Ok, <<>>, <<locked_for_exposure, banned_for_exposure>>)
    /\ UNCHANGED <<constraints, banned, locked, iters, other>>

-----------------------------------------------------------------------------
(* ConstraintIterator *)

\* ConstraintIterator.__init__; `yielded`, `dirty` and `stopped` record the
\* traversal's history (what it returned, whether a constraint was added
\* during it, whether it has raised StopIteration) and are not read by the
\* operations
ConstraintIterator == [ndx |-> 0, yielded |-> <<>>, dirty |-> FALSE, stopped |-> FALSE]

\* LineupConstraints.__iter__
Iter ==
    /\ Len(iters) < MaxIters
    /\ iters' = Append(iters, ConstraintIterator)
    /\ last' = Call("iter", ListArg(<<>>), FALSE, NoBound, Len(iters) + 1, Ok, <<>>,
                    <<{}, {}>>)
    /\ UNCHANGED <<constraints, sets, other>>

\* a mutant of `self.ndx += 1`: the index is left where it was
Advance_Stuck(ndx) == ndx

\* `self.ndx += 1`
Advance(ndx) == ndx + 1

\* a mutant of the test of __next__: an iterator that has raised
\* StopIteration stays exhausted
Exhausted_Sticky(it) == it.stopped \/ it.ndx >= Len(constraints)

\* `self.ndx >= len(self._constraints)`, the list being the container's own
Exhausted(it) == it.ndx >= Len(constraints)

\* ConstraintIterator.__next__ on the i-th iterator
IterNext(i) ==
    /\ i \in 1..Len(iters)
    /\ IF Exhausted(iters[i])
       THEN /\ iters' = [iters EXCEPT ![i].stopped = TRUE]
            /\ last' = Call("next", ListArg(<<>>), FALSE, NoBound, i, StopIteration,
                            <<>>, <<{}, {}>>)
       ELSE LET r == constraints[iters[i].ndx + 1]
            IN  /\ iters' = [iters EXCEPT ![i].ndx = Advance(@),
                                          ![i].yielded = Append(@, r)]
                /\ last' = Call("next", ListArg(<<>>), FALSE, NoBound, i, Ok, <<r>>,
                                <<{}, {}>>)
    /\ UNCHANGED <<constraints, sets, other>>

-----------------------------------------------------------------------------
(* Inputs *)

\* ban / lock: every bare identifier, the empty list, and lists of one and
\* two players, one of them with a player repeated
BatchInputs ==
    {StrArg(p) : p \in Players}
        \cup {ListArg(ps) : ps \in {<<>>, <<"a">>, <<"a", "b">>, <<"c", "c">>}}

\* add_group_constraint: the empty list, a list with a repeated player, the
\* same two players in both orders, and all three players
GroupInputs ==
    {<<>>, <<"a", "a">>, <<"a", "b">>, <<"b", "a">>, <<"a", "b", "c">>}

\* an exact bound, which a list of two players does not admit, and a range
BoundInputs == {IntBound(2), PairBound(1, 2)}

\* the model stores at most cap constraints
CanAdd(players, bound, cap) ==
    AddOutcome(players, bound) = Ok => Len(constraints) < cap

-----------------------------------------------------------------------------
(* Specification of the container *)

Init ==
    /\ constraints = <<>>
    /\ banned = {}
    /\ locked = {}
    /\ banned_for_exposure = {}
    /\ locked_for_exposure = {}
    /\ iters = <<>>
    /\ other = LineupConstraints
    /\ last = NoCall

Next ==
    \/ \E players \in GroupInputs, bound \in BoundInputs :
           CanAdd(players, bound, MaxConstraints) /\ add_group_constraint(players, bound)
    \/ \E players \in BatchInputs, for_exposure \in BOOLEAN :
           ban(players, for_exposure)
    \/ \E players \in BatchInputs, for_exposure \in BOOLEAN :
           lock(players, for_exposure)
    \/ clear_exposure_constraints

Spec == Init /\ [][Next]_vars

-----------------------------------------------------------------------------
(* Specification of the iterators: the container's group constraints and    *)
(* bans, and the traversals over them                                       *)

IterGroupInputs == {<<"a", "b">>, <<"b", "c">>, <<"a", "b", "c">>}

IterBoundInputs == {IntBound(1)}

IterBatchInputs == {StrArg("c")}

NextIter ==
    \/ \E players \in IterGroupInputs, bound \in IterBoundInputs :
           CanAdd(players, bound, MaxConstraints + 1) /\ add_group_constraint(players, bound)
    \/ \E players \in IterBatchInputs : ban(players, FALSE)
    \/ Iter
    \/ \E i \in 1..MaxIters : IterNext(i)

SpecIter == Init /\ [][NextIter]_vars

-----------------------------------------------------------------------------
(* Specification of the constructor: PlayerGroupConstraint(players, bound)  *)
(* applied to every list and bound of the input sets                        *)

\* PlayerGroupConstraint(players, bound), called on its own
Construct(players, bound) ==
    LET out == PlayerGroupConstraintInit(players, bound)
    IN  /\ last' = Call("PlayerGroupConstraint", ListArg(players), FALSE, bound, 0, out,
                        IF out = Ok THEN <<PlayerGroupConstraint(players, bound)>>
                                    ELSE <<>>,
                        <<{}, {}>>)
        /\ UNCHANGED <<constraints, sets, iters, other>>

\* every duplicate-free list of players, the empty list, and a list with a
\* repeated player
CtorGroupInputs ==
    {ps \in UNION {[1..k -> Players] : k \in 1..Cardinality(Players)} :
         Len(ps) = Cardinality(Range(ps))}
        \cup {<<>>, <<"a", "a">>}

\* every integer and every pair of integers from -1 to MaxBound, and a bound
\* of another shape
CtorBoundInputs ==
    {IntBound(n) : n \in -1..MaxBound}
        \cup {PairBound(lo, hi) : lo \in -1..MaxBound, hi \in -1..MaxBound}
        \cup {OtherBound}

NextCtor ==
    \E players \in CtorGroupInputs, bound \in CtorBoundInputs : Construct(players, bound)

SpecCtor == Init /\ [][NextCtor]_vars

-----------------------------------------------------------------------------
(* Specification of two Constraint Sets: the caller builds both with calls  *)
(* of the operations and compares them                                      *)

\* the caller turns to the other object: the following calls act on it
Switch ==
    /\ constraints' = other.constraints
    /\ banned' = other.banned
    /\ locked' = other.locked
    /\ banned_for_exposure' = other.banned_for_exposure
    /\ locked_for_exposure' = other.locked_for_exposure
    /\ other' = Self
    /\ last' = Call("switch", ListArg(<<>>), FALSE, NoBound, 0, Ok, <<>>, <<{}, {}>>)
    /\ UNCHANGED iters

\* self == other
Eq ==
    /\ last' = Call("__eq__", ListArg(<<>>), FALSE, NoBound, 0, Ok,
                    <<LineupConstraintsEq(Self, other)>>, <<{}, {}>>)
    /\ UNCHANGED <<constraints, sets, iters, other>>

EqGroupInputs == {<<"a", "b">>, <<"b", "a">>, <<"a", "b", "c">>}

EqBoundInputs == {PairBound(1, 2)}

EqBatchInputs == {StrArg("c")}

NextEq ==
    \/ \E players \in EqGroupInputs, bound \in EqBoundInputs :
           CanAdd(players, bound, MaxConstraints) /\ add_group_constraint(players, bound)
    \/ \E players \in EqBatchInputs, for_exposure \in BOOLEAN :
           ban(players, for_exposure)
    \/ \E players \in EqBatchInputs, for_exposure \in BOOLEAN :
           lock(players, for_exposure)
    \/ Switch
    \/ Eq

SpecEq == Init /\ [][NextEq]_vars

-----------------------------------------------------------------------------
(* Specification of bare identifiers: ban and lock called with a str and    *)
(* with a list, one identifier being two characters long                    *)

StrBatchInputs ==
    {StrArg("ab"), ListArg(<<"ab">>), StrArg("a"), ListArg(<<"a">>), ListArg(<<"b">>)}

StrGroupInputs == {<<"a", "b">>, <<"ab", "b">>}

StrBoundInputs == {PairBound(1, 2)}

NextStr ==
    \/ \E players \in StrGroupInputs, bound \in StrBoundInputs :
           CanAdd(players, bound, MaxConstraints) /\ add_group_constraint(players, bound)
    \/ \E players \in StrBatchInputs, for_exposure \in BOOLEAN :
           ban(players, for_exposure)
    \/ \E players \in StrBatchInputs, for_exposure \in BOOLEAN :
           lock(players, for_exposure)
    \/ clear_exposure_constraints

SpecStr == Init /\ [][NextStr]_vars

-----------------------------------------------------------------------------
(* Specification of shared players: groups over the same and over           *)
(* overlapping players, with two exact bounds and a range                   *)

ShareGroupInputs == {<<"a", "b">>, <<"b", "a">>, <<"b", "c">>, <<"a", "b", "c">>}

ShareBoundInputs == {IntBound(1), IntBound(2), PairBound(1, 2)}

ShareBatchInputs == {StrArg("a"), StrArg("c")}

NextShare ==
    \/ \E players \in ShareGroupInputs, bound \in ShareBoundInputs :
           CanAdd(players, bound, MaxConstraints) /\ add_group_constraint(players, bound)
    \/ \E players \in ShareBatchInputs, for_exposure \in BOOLEAN :
           ban(players, for_exposure)
    \/ \E players \in ShareBatchInputs : lock(players, FALSE)
    \/ clear_exposure_constraints

SpecShare == Init /\ [][NextShare]_vars

-----------------------------------------------------------------------------
(* Vocabulary of the claims *)

\* the players of the stored group constraints
GroupPlayers == UNION {Range(constraints[i].players) : i \in 1..Len(constraints)}

\* membership as the specification defines it
Member(p) ==
    p \in locked \cup banned \cup locked_for_exposure \cup banned_for_exposure
        \cup GroupPlayers

\* the list of players of the call recorded in a call record
Batch(call) == IF call.players.isStr THEN <<call.players.s>> ELSE call.players.l

Failed(call) == call.out.exc \in {"ConstraintException", "ConstraintConflictException"}

Conflict(call) == call.out.exc = "ConstraintConflictException"

\* equality of group constraints as the specification defines it
EqualConstraints(c, d) ==
    /\ \A p \in Players :
           (\E i \in 1..Len(c.players) : c.players[i] = p)
               <=> (\E i \in 1..Len(d.players) : d.players[i] = p)
    /\ <<c.exact, c.lo, c.hi>> = <<d.exact, d.lo, d.hi>>

-----------------------------------------------------------------------------
(* C1 *)

\* C1: in every reachable state no player is in more than one of: the player
\* set of some stored group constraint, banned, locked.
C1_NoPlayerInTwoCategories ==
    /\ GroupPlayers \cap banned = {}
    /\ GroupPlayers \cap locked = {}
    /\ banned \cap locked = {}

\* a group constraint is stored, a player is banned, and a call naming a
\* player of two categories has just been refused
C1_Witness ==
    /\ Len(constraints) >= 1
    /\ banned # {}
    /\ Conflict(last)

-----------------------------------------------------------------------------
(* C2 *)

\* C2: a call of add_group_constraint, ban or lock that fails leaves the
\* group-constraint sequence and the four membership sets as they were.
C2_FailedCallChangesNothing ==
    [][(last'.op \in {"add_group_constraint", "ban", "lock"} /\ Failed(last'))
           => UNCHANGED <<constraints, banned, locked, banned_for_exposure,
                          locked_for_exposure>>]_vars

\* a ban or lock of two players has failed on the second player alone: the
\* first one is in no set and in no group constraint
C2_Witness ==
    /\ last.op \in {"ban", "lock"}
    /\ Conflict(last)
    /\ Len(Batch(last)) = 2
    /\ last.out.arg = Batch(last)[2]
    /\ ~Member(Batch(last)[1])
    /\ Member(Batch(last)[2])

-----------------------------------------------------------------------------
(* C3 *)

\* the set a ban / lock call targets
C3_TargetGrew(call, ps) ==
    /\ (call.op = "ban" /\ ~call.for_exposure) =>
           /\ banned' = banned \cup ps
           /\ UNCHANGED <<locked, banned_for_exposure, locked_for_exposure>>
    /\ (call.op = "ban" /\ call.for_exposure) =>
           /\ banned_for_exposure' = banned_for_exposure \cup ps
           /\ UNCHANGED <<locked, banned, locked_for_exposure>>
    /\ (call.op = "lock" /\ ~call.for_exposure) =>
           /\ locked' = locked \cup ps
           /\ UNCHANGED <<banned, banned_for_exposure, locked_for_exposure>>
    /\ (call.op = "lock" /\ call.for_exposure) =>
           /\ locked_for_exposure' = locked_for_exposure \cup ps
           /\ UNCHANGED <<locked, banned, banned_for_exposure>>
    /\ UNCHANGED constraints

\* C3: a ban or lock of a non-empty batch fails with a conflict error if and
\* only if a player of the batch was a member before the call, for both values
\* of for_exposure; otherwise it succeeds and adds exactly the batch's players
\* to the targeted set.
C3_BatchConflictIffMember ==
    [][(last'.op \in {"ban", "lock"} /\ Len(Batch(last')) > 0)
           => /\ Conflict(last') <=> \E p \in Range(Batch(last')) : Member(p)
              /\ ~Conflict(last') =>
                     /\ last'.out = Ok
                     /\ C3_TargetGrew(last', Range(Batch(last')))]_vars

\* an exposure lock has been refused because of a player that is only in
\* banned_for_exposure
C3_Witness ==
    /\ last.op = "lock"
    /\ last.for_exposure
    /\ Conflict(last)
    /\ last.out.arg \in banned_for_exposure
    /\ last.out.arg \notin GroupPlayers

-----------------------------------------------------------------------------
(* C4 *)

\* C4, as claimed: right after clear_exposure_constraints, a
\* ban(x, for_exposure=True) succeeds for every player x that was in
\* banned_for_exposure before the clear.
C4_Original ==
    last.op = "clear_exposure_constraints" =>
        \A x \in last.cleared[2] : BanOutcome(StrArg(x)) = Ok

\* C4, amended: right after clear_exposure_constraints, a
\* ban(x, for_exposure=True) succeeds for every player x that was in
\* banned_for_exposure before the clear and is in the player set of no stored
\* group constraint; for one that is in a stored group constraint it fails
\* with a conflict error.
C4_ClearedBanSucceedsUnlessGrouped ==
    last.op = "clear_exposure_constraints" =>
        \A x \in last.cleared[2] :
            IF x \in GroupPlayers
            THEN BanOutcome(StrArg(x)).exc = "ConstraintConflictException"
            ELSE BanOutcome(StrArg(x)) = Ok

\* the clear has just removed exposure bans: one of a player that a group
\* constraint holds, and one of a player that no group constraint holds
C4_Witness ==
    /\ last.op = "clear_exposure_constraints"
    /\ last.cleared[2] \cap GroupPlayers # {}
    /\ last.cleared[2] \ GroupPlayers # {}

-----------------------------------------------------------------------------
(* C5 *)

\* the call is an add_group_constraint whose group is well formed
C5_WellFormedAdd(call) ==
    /\ call.op = "add_group_constraint"
    /\ PlayerGroupConstraintInit(call.players.l, call.bound) = Ok

\* C5: add_group_constraint with a well-formed group fails with the ban/lock
\* conflict error whenever a player of the group is in banned or locked (the
\* error of that check, not the duplicate error, and it names the first such
\* player); if there is no such player and no equal constraint is stored, the
\* constraint is appended at the end and the earlier constraints keep their
\* positions.
C5_AddChecksBanLockThenAppends ==
    [][C5_WellFormedAdd(last') =>
           LET ps == last'.players.l
               c  == PlayerGroupConstraint(ps, last'.bound)
               hit == {i \in 1..Len(ps) : ps[i] \in banned \cup locked}
           IN  IF hit # {}
               THEN /\ Conflict(last')
                    /\ last'.out.msg = "Ban/lock constraint for {} already exists"
                    /\ \E i \in hit : /\ last'.out.arg = ps[i]
                                      /\ \A j \in hit : i <= j
                    /\ constraints' = constraints
               ELSE (\A i \in 1..Len(constraints) : ~EqualConstraints(constraints[i], c))
                        => /\ last'.out = Ok
                           /\ Len(constraints') = Len(constraints) + 1
                           /\ constraints'[Len(constraints')] = c
                           /\ \A i \in 1..Len(constraints) :
                                  constraints'[i] = constraints[i]]_vars

\* a well-formed group has been refused because of a banned player while
\* another constraint was stored
C5_Witness ==
    /\ C5_WellFormedAdd(last)
    /\ last.out.msg = "Ban/lock constraint for {} already exists"
    /\ last.out.arg \in banned
    /\ Len(constraints) >= 1

-----------------------------------------------------------------------------
(* C6 *)

C6_NoTwoEqual ==
    \A i, j \in 1..Len(constraints) :
        i # j => ~EqualConstraints(constraints[i], constraints[j])

\* C6: the stored sequence never contains two equal constraints; adding a
\* constraint equal to a stored one, also with the players listed in another
\* order, fails with a conflict error and leaves len() as it was.
C6_NoDuplicateConstraint ==
    [][/\ C6_NoTwoEqual'
       /\ (/\ C5_WellFormedAdd(last')
           /\ \E i \in 1..Len(constraints) :
                  EqualConstraints(constraints[i],
                                   PlayerGroupConstraint(last'.players.l, last'.bound)))
              => /\ Conflict(last')
                 /\ SetLen' = SetLen]_vars

\* a constraint has been refused as a duplicate of a stored one that lists
\* the same players in another order
C6_Witness ==
    /\ last.op = "add_group_constraint"
    /\ last.out.msg = "Duplicate constraint"
    /\ \E i \in 1..Len(constraints) :
           /\ EqualConstraints(constraints[i],
                               PlayerGroupConstraint(last.players.l, last.bound))
           /\ constraints[i].players # last.players.l

-----------------------------------------------------------------------------
(* C7 *)

\* C7: clear_exposure_constraints empties banned_for_exposure and
\* locked_for_exposure, leaves the group-constraint sequence, banned and
\* locked unchanged, and does not fail; it can be called in every state.
C7_ClearEmptiesOnlyExposure ==
    /\ [](ENABLED clear_exposure_constraints)
    /\ [][last'.op = "clear_exposure_constraints"
              => /\ banned_for_exposure' = {}
                 /\ locked_for_exposure' = {}
                 /\ UNCHANGED <<constraints, banned, locked>>
                 /\ last'.out = Ok
                 /\ last'.cleared = <<locked_for_exposure, banned_for_exposure>>]_vars

\* the clear has removed an exposure ban and an exposure lock while a ban
\* and a group constraint were in place
C7_Witness ==
    /\ last.op = "clear_exposure_constraints"
    /\ last.cleared[1] # {}
    /\ last.cleared[2] # {}
    /\ banned \cup locked # {}
    /\ Len(constraints) >= 1

-----------------------------------------------------------------------------
(* C8 *)

\* C8: is_banned(p) is true exactly when p is in banned and is_locked(p)
\* exactly when p is in locked; a successful ban or lock with
\* for_exposure=True changes neither query for any player, yet makes the
\* membership test true for the players it added; a successful non-exposure
\* ban makes is_banned true for its players and leaves is_locked false for
\* them.
C8_ExposureInvisibleToQueries ==
    /\ [](\A p \in Players : /\ is_banned(p) <=> p \in banned
                             /\ is_locked(p) <=> p \in locked)
    /\ [][/\ (last'.op \in {"ban", "lock"} /\ last'.out = Ok /\ last'.for_exposure)
              => /\ \A p \in Players : /\ is_banned(p)' <=> is_banned(p)
                                       /\ is_locked(p)' <=> is_locked(p)
                 /\ \A p \in Range(Batch(last')) : Contains(p)'
          /\ (last'.op = "ban" /\ last'.out = Ok /\ ~last'.for_exposure)
              => \A p \in Range(Batch(last')) : is_banned(p)' /\ ~is_locked(p)']_vars

\* an exposure ban of two players has succeeded: both are members, neither
\* is banned
C8_Witness ==
    /\ last.op = "ban"
    /\ last.for_exposure
    /\ last.out = Ok
    /\ Cardinality(Range(Batch(last))) = 2
    /\ \A p \in Range(Batch(last)) : Contains(p) /\ ~is_banned(p) /\ ~is_locked(p)

-----------------------------------------------------------------------------
(* C9 *)

\* C9: a well-formed group that equals no stored constraint and has no player
\* in banned or locked is accepted by add_group_constraint also when a player
\* of it is in banned_for_exposure or locked_for_exposure; a ban or lock with
\* for_exposure=True of a player of a stored group constraint fails with a
\* conflict error.
C9_ExposureGroupAsymmetry ==
    [][/\ (/\ C5_WellFormedAdd(last')
           /\ Range(last'.players.l) \cap (banned \cup locked) = {}
           /\ Range(last'.players.l)
                  \cap (banned_for_exposure \cup locked_for_exposure) # {}
           /\ \A i \in 1..Len(constraints) :
                  ~EqualConstraints(constraints[i],
                                    PlayerGroupConstraint(last'.players.l, last'.bound)))
              => /\ last'.out = Ok
                 /\ constraints' = constraints
                        \o <<PlayerGroupConstraint(last'.players.l, last'.bound)>>
       /\ (/\ last'.op \in {"ban", "lock"}
           /\ last'.for_exposure
           /\ Range(Batch(last')) \cap GroupPlayers # {})
              => /\ Conflict(last')
                 /\ UNCHANGED <<banned_for_exposure, locked_for_exposure>>]_vars

\* a group constraint has been accepted that holds a player banned for
\* exposure
C9_Witness ==
    /\ last.op = "add_group_constraint"
    /\ last.out = Ok
    /\ Range(last.players.l) \cap banned_for_exposure # {}

\* the opposite order: the exposure ban of a player of a stored group
\* constraint, who is in none of the four sets, has been refused
C9_WitnessRefused ==
    /\ last.op = "ban"
    /\ last.for_exposure
    /\ Conflict(last)
    /\ last.out.arg \in GroupPlayers
    /\ last.out.arg \notin
           banned \cup locked \cup banned_for_exposure \cup locked_for_exposure

-----------------------------------------------------------------------------
(* C10 *)

\* C10: a traversal during which no constraint was added has yielded the
\* stored group constraints in insertion order, each once, as far as it has
\* advanced; __next__ returns the next stored constraint, and raises
\* StopIteration only when all of them have been yielded; what it yields is
\* a stored group constraint, never a banned or locked player. A new
\* iterator starts before the first constraint wherever the other iterators
\* are.
C10_TraversalInOrderOnce ==
    /\ \A i \in 1..Len(iters) :
           ~iters[i].dirty =>
               /\ Len(iters[i].yielded) <= Len(constraints)
               /\ iters[i].yielded = SubSeq(constraints, 1, Len(iters[i].yielded))
    /\ (last.op = "next" /\ ~iters[last.it].dirty) =>
           IF last.out = Ok
           THEN /\ last.ret = <<constraints[Len(iters[last.it].yielded)]>>
                /\ last.ret[1] \in {constraints[k] : k \in 1..Len(constraints)}
           ELSE /\ last.out = StopIteration
                /\ iters[last.it].yielded = constraints
    /\ last.op = "iter" =>
           /\ iters[last.it].ndx = 0
           /\ iters[last.it].yielded = <<>>

\* one traversal has yielded all three stored constraints and has just
\* raised StopIteration, while a second traversal of the same, unchanged
\* sequence has yielded the first constraint only
C10_Witness ==
    /\ Len(constraints) = 3
    /\ last.op = "next"
    /\ last.out = StopIteration
    /\ ~iters[last.it].dirty
    /\ iters[last.it].yielded = constraints
    /\ \E j \in 1..Len(iters) :
           /\ ~iters[j].dirty
           /\ Len(iters[j].yielded) = 1

-----------------------------------------------------------------------------
(* C11 *)

\* the call constructed a group constraint from a non-empty list without
\* repeated players
C11_GroupCall(call, kind) ==
    /\ call.op = "PlayerGroupConstraint"
    /\ call.bound.kind = kind
    /\ Len(call.players.l) > 0
    /\ \A i, j \in 1..Len(call.players.l) :
           i # j => call.players.l[i] # call.players.l[j]

\* C11: for a non-empty duplicate-free group P and an integer bound e, the
\* construction in exact mode succeeds if and only if 0 < e < |P|, and fails
\* with a validation error otherwise.
C11_ExactBoundAccepted ==
    C11_GroupCall(last, "int") =>
        IF 0 < last.bound.a /\ last.bound.a < Len(last.players.l)
        THEN /\ last.out = Ok
             /\ last.ret = <<[players |-> last.players.l, exact |-> <<last.bound.a>>,
                              lo |-> <<>>, hi |-> <<>>]>>
        ELSE last.out.exc = "ConstraintException"

\* an exact bound equal to the size of a group of more than one player has
\* been refused
C11_Witness ==
    /\ C11_GroupCall(last, "int")
    /\ Len(last.players.l) > 1
    /\ last.bound.a = Len(last.players.l)
    /\ last.out.exc = "ConstraintException"

-----------------------------------------------------------------------------
(* C12 *)

\* C12: for a non-empty duplicate-free group P and a pair (lo, hi), the
\* construction in range mode succeeds if and only if 1 <= lo < hi <= |P|, and
\* fails with a validation error otherwise.
C12_RangeBoundAccepted ==
    C11_GroupCall(last, "pair") =>
        IF /\ 1 <= last.bound.a
           /\ last.bound.a < last.bound.b
           /\ last.bound.b <= Len(last.players.l)
        THEN /\ last.out = Ok
             /\ last.ret = <<[players |-> last.players.l, exact |-> <<>>,
                              lo |-> <<last.bound.a>>, hi |-> <<last.bound.b>>]>>
        ELSE last.out.exc = "ConstraintException"

\* a range whose two bounds are equal, and within the group size, has been
\* refused
C12_Witness ==
    /\ C11_GroupCall(last, "pair")
    /\ 1 <= last.bound.a
    /\ last.bound.a = last.bound.b
    /\ last.bound.b <= Len(last.players.l)
    /\ last.out.exc = "ConstraintException"

-----------------------------------------------------------------------------
(* C13 *)

\* the two lists hold the same group constraints, in whatever order
C13_SameConstraints(x, y) ==
    /\ \A i \in 1..Len(x) : \E j \in 1..Len(y) : EqualConstraints(x[i], y[j])
    /\ \A j \in 1..Len(y) : \E i \in 1..Len(x) : EqualConstraints(x[i], y[j])

\* C13: two Constraint Sets built by calls compare equal if and only if they
\* hold the same group constraints, in whatever order, and their banned,
\* locked, banned_for_exposure and locked_for_exposure sets are pairwise
\* equal; the comparison gives the same answer in both directions.
C13_EqualIffSameRules ==
    /\ last.op = "__eq__" =>
           (last.ret = <<TRUE>>
                <=> /\ C13_SameConstraints(constraints, other.constraints)
                    /\ banned = other.banned
                    /\ locked = other.locked
                    /\ banned_for_exposure = other.banned_for_exposure
                    /\ locked_for_exposure = other.locked_for_exposure)
    /\ LineupConstraintsEq(Self, other) = LineupConstraintsEq(other, Self)

\* two sets that hold the same two constraints in opposite orders, and the
\* same exposure ban, have compared equal
C13_Witness ==
    /\ last.op = "__eq__"
    /\ last.ret = <<TRUE>>
    /\ Len(constraints) = 2
    /\ EqualConstraints(constraints[1], other.constraints[2])
    /\ ~EqualConstraints(constraints[1], other.constraints[1])
    /\ banned_for_exposure # {}

-----------------------------------------------------------------------------
(* C14 *)

\* C14: ban(x) and lock(x) with a bare identifier x have the outcome and the
\* resulting state of the same call with the list [x], for both values of
\* for_exposure: the identifier is not split into its characters.
C14_BareIdentifierIsSingleton ==
    [][(last'.op \in {"ban", "lock"} /\ last'.players.isStr) =>
           LET x   == last'.players.s
               out == IF last'.op = "ban"
                      THEN BanOutcome(ListArg(<<x>>))
                      ELSE LockOutcome(ListArg(<<x>>))
           IN  /\ last'.out = out
               /\ C3_TargetGrew(last', IF out = Ok THEN {x} ELSE {})]_vars

\* the bare identifier "ab" has been banned while its characters, which are
\* identifiers too, were locked: the call succeeded and banned "ab" alone
C14_Witness ==
    /\ last.op = "ban"
    /\ last.players = StrArg("ab")
    /\ last.out = Ok
    /\ "ab" \in banned \cup banned_for_exposure
    /\ "a" \in locked

-----------------------------------------------------------------------------
(* C15 *)

\* C15: len is the number of stored group constraints plus the sizes of the
\* four sets; a successful add_group_constraint raises it by 1, a successful
\* ban or lock by the number of distinct identifiers of the batch, and a
\* failed call leaves it as it was.
C15_LenCountsEveryCollection ==
    [][/\ SetLen' = Len(constraints') + Cardinality(banned') + Cardinality(locked')
                        + Cardinality(banned_for_exposure')
                        + Cardinality(locked_for_exposure')
       /\ (last'.op = "add_group_constraint" /\ last'.out = Ok) => SetLen' = SetLen + 1
       /\ (last'.op \in {"ban", "lock"} /\ last'.out = Ok) =>
              SetLen' = SetLen + Cardinality(Range(Batch(last')))
       /\ (last'.op \in {"add_group_constraint", "ban", "lock"} /\ Failed(last')) =>
              SetLen' = SetLen]_vars

\* a lock for exposure of the batch [c, c] has succeeded next to a stored
\* group constraint: the length is 2, the identifier c counted once
C15_Witness ==
    /\ last.op = "lock"
    /\ last.players = ListArg(<<"c", "c">>)
    /\ last.for_exposure
    /\ last.out = Ok
    /\ Len(constraints) = 1
    /\ SetLen = 2

-----------------------------------------------------------------------------
(* C16 *)

\* C16: in every reachable state banned, locked, banned_for_exposure and
\* locked_for_exposure are pairwise disjoint.
C16_MembershipSetsDisjoint ==
    /\ banned \cap locked = {}
    /\ banned \cap banned_for_exposure = {}
    /\ banned \cap locked_for_exposure = {}
    /\ locked \cap banned_for_exposure = {}
    /\ locked \cap locked_for_exposure = {}
    /\ banned_for_exposure \cap locked_for_exposure = {}

\* a ban for exposure has succeeded while a player is locked for exposure and
\* another is locked: three of the four sets hold a player each
C16_Witness ==
    /\ last.op = "ban"
    /\ last.for_exposure
    /\ last.out = Ok
    /\ locked_for_exposure # {}
    /\ banned_for_exposure # {}
    /\ locked # {}

-----------------------------------------------------------------------------
(* C17 *)

\* C17: no step removes an element of the group-constraint sequence, of banned
\* or of locked, so is_banned and is_locked stay true once true; and a ban or
\* lock naming a player that is banned, locked or in a stored group constraint
\* fails with a conflict, whatever for_exposure is.
C17_RulesOnlyGrow ==
    [][/\ Len(constraints) <= Len(constraints')
       /\ SubSeq(constraints', 1, Len(constraints)) = constraints
       /\ banned \subseteq banned'
       /\ locked \subseteq locked'
       /\ \A p \in Players : /\ is_banned(p) => is_banned(p)'
                             /\ is_locked(p) => is_locked(p)'
       /\ (/\ last'.op \in {"ban", "lock"}
           /\ Range(Batch(last')) \cap (banned \cup locked \cup GroupPlayers) # {})
              => Conflict(last')]_vars

\* a lock for exposure naming a banned player has been refused with a
\* conflict while a group constraint is stored
C17_Witness ==
    /\ last.op = "lock"
    /\ last.for_exposure
    /\ Conflict(last)
    /\ Range(Batch(last)) \cap banned # {}
    /\ constraints # <<>>

-----------------------------------------------------------------------------
(* C18 *)

\* C18: an iterator reads the container's sequence as it is at the call of
\* __next__: whatever was added since the iterator was created, and whether
\* or not the iterator has raised StopIteration before, __next__ returns the
\* stored constraint after the ones it has yielded when there is one, and
\* raises StopIteration when there is none; no iterator yields a constraint
\* twice.
C18_IteratorReadsLiveSequence ==
    [][\A i \in 1..Len(iters) :
           /\ iters[i].yielded = SubSeq(constraints, 1, iters[i].ndx)
           /\ (last'.op = "next" /\ last'.it = i) =>
                  IF Len(iters[i].yielded) < Len(constraints)
                  THEN /\ last'.out = Ok
                       /\ last'.ret = <<constraints[Len(iters[i].yielded) + 1]>>
                       /\ iters'[i].yielded = Append(iters[i].yielded, last'.ret[1])
                       /\ \A k \in 1..Len(iters[i].yielded) :
                              ~EqualConstraints(iters[i].yielded[k], last'.ret[1])
                  ELSE /\ last'.out = StopIteration
                       /\ iters'[i].yielded = iters[i].yielded]_vars

\* an iterator that had raised StopIteration before a constraint was added
\* has just yielded that constraint, the second of the sequence
C18_Witness ==
    /\ last.op = "next"
    /\ last.out = Ok
    /\ iters[last.it].stopped
    /\ iters[last.it].dirty
    /\ Len(constraints) = 2
    /\ iters[last.it].yielded = constraints
    /\ last.ret = <<constraints[2]>>

-----------------------------------------------------------------------------
(* C19 *)

\* C19: add_group_constraint with a well-formed group that shares a player
\* with a stored group constraint, or has the very players of one, succeeds
\* and appends the constraint whenever no equal constraint is stored and no
\* player of the group is banned or locked.
C19_SharedPlayersAccepted ==
    [][(/\ C5_WellFormedAdd(last')
        /\ Range(last'.players.l) \cap GroupPlayers # {}
        /\ Range(last'.players.l) \cap (banned \cup locked) = {}
        /\ \A i \in 1..Len(constraints) :
               ~EqualConstraints(constraints[i],
                                 PlayerGroupConstraint(last'.players.l, last'.bound)))
           => /\ last'.out = Ok
              /\ constraints' = Append(constraints,
                                       PlayerGroupConstraint(last'.players.l, last'.bound))]_vars

\* a group has been accepted whose players are those of the stored
\* constraint, with another exact count
C19_Witness ==
    /\ last.op = "add_group_constraint"
    /\ last.out = Ok
    /\ Len(constraints) = 2
    /\ Range(constraints[1].players) = Range(constraints[2].players)
    /\ constraints[1].exact # None
    /\ constraints[2].exact # None
    /\ constraints[1].exact # constraints[2].exact

====
